---- MODULE Spec2Model ----
(***************************************************************************)
(* A model of the TOTP engine of the credentials page (src/js/app.js):     *)
(* base32 decoding, counter encoding, dynamic truncation and formatting    *)
(* (generateTOTP), the time arithmetic (getTimeRemaining), the otpauth     *)
(* URL helpers, and the countdown driver (initTOTP, refreshTOTPCode,       *)
(* startProgressAnimation/animate).                                        *)
(*                                                                         *)
(* Strings are sequences of one-character strings.  Bytes are 0..255.      *)
(* Times are milliseconds since the epoch, as Date.now() returns them.     *)
(***************************************************************************)
EXTENDS Integers, Sequences, FiniteSets, TLC

VARIABLES
    now,               \* the last value Date.now() returned
    hmacTable,         \* the MACs crypto.subtle has revealed: <<key, message>> -> MAC
    twofa,             \* credentials.twofa, the secret of the session
    pc,                \* "loading", "initial" (initTOTP awaits its refresh), "running"
    presented,         \* the TOTP section is on the page (it has not been torn down)
    currentTOTPCode,   \* app.js 205
    animationFrameId,  \* app.js 207; 0 stands for null
    lastCodeTime,      \* the closure variable of startProgressAnimation; -1 before it
    codeElText,        \* textContent of the element totpCode
    progressScale,     \* numerator of the scale last drawn, over WindowMs; -1 before
    errorLog,          \* number of console.error calls of refreshTOTPCode
    inFlight,          \* refreshes awaiting hmacSha1: records [seq, time]
    pendingFrames,     \* frame requests the host holds armed
    nextFrameId,       \* the id the next requestAnimationFrame returns
    refreshCount,      \* number of refreshTOTPCode calls made so far
    lastStarted,       \* the time read by the most recently started refresh
    settled,           \* history: number of refreshes that settled
    prevCall,          \* the call of generateTOTP before lastCall
    lastCall,          \* the last call of generateTOTP and its result
    remaining,         \* the last call of getTimeRemaining and its result
    urlCall,           \* the last call of an otpauth URL helper and its result
    helperCall,        \* the last call of base32Decode or intToBytes and its result
    published,         \* history: [seq, counter] of the refresh whose code is shown
    rejections,        \* history: number of hmacSha1 calls that rejected
    startWindow,       \* history: window of the time read at app.js 325; -1 before
    lastTick,          \* history: [time, refreshed] of the last run of animate
    prevTick,          \* history: the run of animate before lastTick
    ticksIn,           \* history: window -> runs of animate in it (0, 1, 2 = more)
    refreshIn,         \* history: window -> refreshes animate started in it
    firstTickRefreshed \* history: window -> the first run of animate in it refreshed

(***************************************************************************)
(* Bounds of the model.                                                    *)
(***************************************************************************)
\* Number of 30-second windows after window 0 that the clock may reach.
MaxWindow == 2
\* Length of the longest string handed to base32Decode.
MaxSecretLen == 7
\* Number of animation frames the host may run in one behaviour.
MaxTicks == 5

(***************************************************************************)
(* Program constants.                                                      *)
(***************************************************************************)
\* The window length in milliseconds used by the driver (30000 in the code).
WindowMs == 30000
\* Milliseconds per second (Date.now() / 1000).
MsPerSecond == 1000
\* Default timeStep parameter of generateTOTP and getTimeRemaining.
DefaultTimeStep == 30
\* Default digits parameter of generateTOTP.
DefaultDigits == 6
\* Length of an HMAC-SHA1 signature in bytes.
MacLen == 20

(***************************************************************************)
(* JavaScript number helpers.  The bitwise operators of JavaScript work on *)
(* 32-bit words; a word is held here as the signed integer ToInt32 gives   *)
(* it (-2^31 .. 2^31 - 1), which is also the range of TLC's integers, so   *)
(* no operator below forms an intermediate value outside that range.       *)
(***************************************************************************)
Two8 == 16 * 16
Two16 == Two8 * Two8
Two24 == Two16 * Two8
Two30 == Two24 * 64
MaxInt32 == (Two30 - 1) + Two30
MinInt32 == (0 - MaxInt32) - 1

\* 2^k for 0 <= k <= 30 and 10^k for 0 <= k <= 9.
TwoPow == <<1, 2, 4, 8, 16, 32, 64, 128, 256, 512, 1024, 2048, 4096, 8192,
            16384, 32768, 65536, 131072, 262144, 524288, 1048576, 2097152,
            4194304, 8388608, 16777216, 33554432, 67108864, 134217728,
            268435456, 536870912, 1073741824>>
TenPow == <<1, 10, 100, 1000, 10000, 100000, 1000000, 10000000, 100000000,
            1000000000>>
Pow2(k) == TwoPow[k + 1]
Pow10(k) == TenPow[k + 1]

\* The two 16-bit halves of a word, as unsigned values, and the word of two
\* halves.
Hi16(x) == (x \div Two16) % Two16
Lo16(x) == x % Two16
FromHalves(h, l) == (IF h >= Two16 \div 2 THEN h - Two16 ELSE h) * Two16 + l

\* Bitwise AND / OR of two unsigned values of 4 and of 16 bits.
Bit(x, i) == (x \div Pow2(i)) % 2
And4 ==
    [a \in 0..15 |-> [b \in 0..15 |->
        Bit(a, 0) * Bit(b, 0) + 2 * (Bit(a, 1) * Bit(b, 1))
        + 4 * (Bit(a, 2) * Bit(b, 2)) + 8 * (Bit(a, 3) * Bit(b, 3))]]
Nibble(x, i) == (x \div Pow2(4 * i)) % 16
And16(a, b) ==
    IF a = 0 \/ b = 0 THEN 0
    ELSE And4[Nibble(a, 0)][Nibble(b, 0)] + 16 * And4[Nibble(a, 1)][Nibble(b, 1)]
         + 256 * And4[Nibble(a, 2)][Nibble(b, 2)]
         + 4096 * And4[Nibble(a, 3)][Nibble(b, 3)]
Or16(a, b) == (a + b) - And16(a, b)

\* a & b and a | b on words.
JsAnd(a, b) == FromHalves(And16(Hi16(a), Hi16(b)), And16(Lo16(a), Lo16(b)))
JsOr(a, b) == FromHalves(Or16(Hi16(a), Hi16(b)), Or16(Lo16(a), Lo16(b)))

\* a << 1: bit 31 is lost, bit 30 becomes the sign.
Shl1(a) ==
    LET low31 == IF a >= 0 THEN a ELSE (a + MaxInt32) + 1
    IN  IF low31 >= Two30 THEN ((low31 - Two30) * 2 + MinInt32) ELSE low31 * 2

\* a << k for 0 <= k <= 31: the low 32 - k bits of a move up, the highest of
\* them becomes the sign.
JsShl(a, k) ==
    IF k = 0 THEN a
    ELSE IF k = 1 THEN Shl1(a)
    ELSE LET low == a % Pow2(32 - k)
         IN  IF low >= Pow2(31 - k)
             THEN (low - Pow2(32 - k)) * Pow2(k)
             ELSE low * Pow2(k)

\* (a >>> k) & 0xff for 0 <= k <= 24: bits k .. k+7 of the word.
JsShrUByteLow(a, k) == a % Two8
JsShrUByte(a, k) == (a \div Pow2(k)) % Two8

\* a % b for a word a and b > 0: the remainder takes the sign of the dividend.
JsRem(a, b) == IF a >= 0 THEN a % b ELSE 0 - ((0 - a) % b)

\* a % Math.pow(10, digits) for a word a: from 10 digits on the power exceeds
\* every word, and the remainder is a itself.
JsRemPow10(a, digits) == IF digits >= 10 THEN a ELSE JsRem(a, Pow10(digits))

(***************************************************************************)
(* Strings.                                                                *)
(***************************************************************************)
DigitChars == <<"0", "1", "2", "3", "4", "5", "6", "7", "8", "9">>
UpperChars == <<"A", "B", "C", "D", "E", "F", "G", "H", "I", "J", "K", "L", "M",
                "N", "O", "P", "Q", "R", "S", "T", "U", "V", "W", "X", "Y", "Z">>
LowerChars == <<"a", "b", "c", "d", "e", "f", "g", "h", "i", "j", "k", "l", "m",
                "n", "o", "p", "q", "r", "s", "t", "u", "v", "w", "x", "y", "z">>

\* s.indexOf(c) on a sequence of characters: the first 0-based index, or -1.
IndexOf(s, c) ==
    LET at == {i \in 1..Len(s) : s[i] = c}
    IN  IF at = {} THEN -1 ELSE (CHOOSE i \in at : \A j \in at : i <= j) - 1

\* One character of str.toUpperCase().
UpperOf == [c \in {LowerChars[i] : i \in 1..Len(LowerChars)} |->
              UpperChars[IndexOf(LowerChars, c) + 1]]
\* U+0131 (dotless i) and U+017F (long s), whose upper case is I and S.
DotlessI == "U+305"
LongS == "U+383"
UpperChar(c) ==
    IF c \in DOMAIN UpperOf THEN UpperOf[c]
    ELSE IF c = DotlessI THEN "I"
    ELSE IF c = LongS THEN "S"
    ELSE c

ToUpperCase(s) == [i \in 1..Len(s) |-> UpperChar(s[i])]

\* n.toString() for an integer n.
RECURSIVE NatToString(_)
NatToString(n) ==
    IF n < 10 THEN <<DigitChars[n + 1]>>
    ELSE NatToString(n \div 10) \o <<DigitChars[(n % 10) + 1]>>

NumToString(n) == IF n < 0 THEN <<"-">> \o NatToString(0 - n) ELSE NatToString(n)

\* s.padStart(n, c) for a one-character pad c.
RECURSIVE PadStart(_, _, _)
PadStart(s, n, c) == IF Len(s) >= n THEN s ELSE PadStart(<<c>> \o s, n, c)

\* s.slice(a) and s.slice(a, b) for 0 <= a <= b.
Slice(s, a, b) ==
    LET lo == IF a > Len(s) THEN Len(s) ELSE a
        hi == IF b > Len(s) THEN Len(s) ELSE b
    IN  IF hi <= lo THEN <<>> ELSE SubSeq(s, lo + 1, hi)

(***************************************************************************)
(* base32Decode (app.js 640-668).                                          *)
(***************************************************************************)
BASE32_ALPHABET == UpperChars \o <<"2", "3", "4", "5", "6", "7">>

\* BASE32_ALPHABET.indexOf(c), tabulated for the characters it holds.
Base32Index == [c \in {BASE32_ALPHABET[i] : i \in 1..Len(BASE32_ALPHABET)} |->
                  IndexOf(BASE32_ALPHABET, c)]
alphabetIndexOf(c) == IF c \in DOMAIN Base32Index THEN Base32Index[c] ELSE -1

\* The characters the regular expression [^A-Z2-7] keeps.
UpperSet == {UpperChars[i] : i \in 1..Len(UpperChars)}
IsBase32Char(c) == c \in UpperSet \/ c \in {"2", "3", "4", "5", "6", "7"}

\* The decoding loop over the cleaned string, from position i (1-based) with
\* the accumulator value (an int32), the pending bit count and the output.
RECURSIVE Base32Loop(_, _, _, _, _)
Base32Loop(str, i, value, bits, output) ==
    IF i > Len(str) THEN output
    ELSE LET idx == alphabetIndexOf(str[i]) IN
         IF idx = -1 THEN Base32Loop(str, i + 1, value, bits, output)
         ELSE LET v == JsOr(JsShl(value, 5), idx)
                  b == bits + 5
              IN  IF b >= 8
                  THEN Base32Loop(str, i + 1, v, b - 8,
                                  Append(output, JsShrUByte(v, b - 8)))
                  ELSE Base32Loop(str, i + 1, v, b, output)

base32Decode(str) ==
    Base32Loop(SelectSeq(ToUpperCase(str), IsBase32Char), 1, 0, 0, <<>>)

(***************************************************************************)
(* intToBytes (app.js 675-682).                                            *)
(***************************************************************************)
\* DataView.setUint32: the four big-endian bytes of a word.
Uint32Bytes(x) ==
    <<(x \div Two24) % Two8, (x \div Two16) % Two8, (x \div Two8) % Two8, x % Two8>>

\* A non-negative integer Number below 2^53 is held as <<upper, lower>>, its
\* value being upper * 2^30 + lower with 0 <= lower < 2^30.  Every such
\* integer is a double, and dividing a double by a power of two is exact.
JsNumber(n) == <<n \div Two30, n % Two30>>

\* Math.floor(num / 0x100000000): the rest of num below 2^32 is
\* (upper mod 4) * 2^30 + lower.
HighWordRounded(num) == (num[1] + 2) \div 4
HighWord(num) == num[1] \div 4

\* num >>> 0: num modulo 2^32, as a word.
LowWord(num) ==
    (IF num[1] % 4 >= 2 THEN (num[1] % 4) - 4 ELSE num[1] % 4) * Two30 + num[2]

intToBytes(num) == Uint32Bytes(HighWord(num)) \o Uint32Bytes(LowWord(num))

(***************************************************************************)
(* hmacSha1 (app.js 690-701).  The signature comes from the platform's     *)
(* crypto.subtle: a call either rejects (the primitive is unavailable or   *)
(* fails) or resolves to a 20-byte MAC that is a function of (key,         *)
(* message).  The function is not computed here: hmacTable holds the MACs  *)
(* the platform has revealed so far, and a pair seen for the first time    *)
(* gets any MAC of the set `fresh`.                                        *)
(***************************************************************************)
MacZero == [i \in 1..MacLen |-> 0]
MacOnes == [i \in 1..MacLen |-> 255]
MacRamp == [i \in 1..MacLen |-> i - 1]
MacHigh == [i \in 1..MacLen |->
              IF i = 1 THEN 128 ELSE IF i = 4 THEN 42 ELSE IF i = MacLen THEN 240 ELSE 0]
\* The HMAC-SHA1 value of the worked example in RFC 4226, section 5.4.
MacRfc == <<31, 134, 152, 105, 14, 2, 202, 22, 97, 133,
            80, 239, 127, 25, 218, 142, 148, 91, 85, 90>>
MacSet == {MacZero, MacOnes, MacRamp, MacHigh, MacRfc}

\* The outcome of a rejected crypto.subtle call.
Rejected == <<"rejected">>

\* The outcomes hmacSha1(key, message) may have, given the MACs revealed.
hmacSha1(table, key, message, fresh) ==
    {Rejected} \cup (IF <<key, message>> \in DOMAIN table
                     THEN {table[<<key, message>>]}
                     ELSE fresh)

\* The table after hmacSha1(key, message) had the given outcome.
Reveal(table, key, message, outcome) ==
    IF outcome = Rejected \/ <<key, message>> \in DOMAIN table THEN table
    ELSE [p \in DOMAIN table \cup {<<key, message>>} |->
            IF p = <<key, message>> THEN outcome ELSE table[p]]

(***************************************************************************)
(* generateTOTP (app.js 710-728).                                          *)
(***************************************************************************)
\* Math.floor(Date.now() / 1000)
UnixSeconds(nowMs) == nowMs \div MsPerSecond

\* const counter = Math.floor(time / timeStep)
totpCounterSeconds(timeStep, nowMs) == UnixSeconds(nowMs)
totpCounter(timeStep, nowMs) == UnixSeconds(nowMs) \div timeStep

\* hmac[i] for a 0-based index i; an index outside the array reads undefined,
\* which the bitwise operators convert to 0.
ByteAt(hmac, i) == IF (i + 1) \in DOMAIN hmac THEN hmac[i + 1] ELSE 0

\* const offset = hmac[hmac.length - 1] & 0x0f
truncOffsetUnmasked(hmac) == ByteAt(hmac, Len(hmac) - 1)
truncOffset(hmac) == JsAnd(ByteAt(hmac, Len(hmac) - 1), 15)

\* The first operand of the truncation: (hmac[offset] & 0x7f) << 24
truncHighUnmasked(hmac, offset) == JsShl(JsAnd(ByteAt(hmac, offset), 255), 24)
truncHigh(hmac, offset) == JsShl(JsAnd(ByteAt(hmac, offset), 127), 24)

\* const binary = (..) << 24 | (..) << 16 | (..) << 8 | (..)
truncBinary(hmac) ==
    LET offset == truncOffset(hmac)
    IN  JsOr(JsOr(JsOr(truncHigh(hmac, offset),
                       JsShl(JsAnd(ByteAt(hmac, offset + 1), 255), 16)),
                  JsShl(JsAnd(ByteAt(hmac, offset + 2), 255), 8)),
             JsAnd(ByteAt(hmac, offset + 3), 255))

\* const otp = binary % Math.pow(10, digits); otp.toString().padStart(digits, '0')
formatOtp(binary, digits) ==
    PadStart(NumToString(JsRemPow10(binary, digits)), digits, "0")

\* The key and the message generateTOTP hands to hmacSha1.
totpKey(secret) == base32Decode(secret)
totpMessage(timeStep, nowMs) == intToBytes(JsNumber(totpCounter(timeStep, nowMs)))

\* The settlement of the promise generateTOTP returns, for the outcome of its
\* hmacSha1 call: rejected with it, or fulfilled with the code.
generateTOTPSwallow(secret, timeStep, digits, nowMs, outcome) ==
    [ok |-> TRUE,
     code |-> formatOtp(IF outcome = Rejected THEN 0 ELSE truncBinary(outcome), digits)]
generateTOTP(secret, timeStep, digits, nowMs, outcome) ==
    IF outcome = Rejected
    THEN [ok |-> FALSE, code |-> <<>>]
    ELSE [ok |-> TRUE, code |-> formatOtp(truncBinary(outcome), digits)]

(***************************************************************************)
(* getTimeRemaining (app.js 735-738).                                      *)
(***************************************************************************)
getTimeRemainingMs(timeStep, nowMs) == timeStep - (nowMs % timeStep)
getTimeRemaining(timeStep, nowMs) == timeStep - (UnixSeconds(nowMs) % timeStep)

(***************************************************************************)
(* The OTP URL helpers (app.js 747-775) and the platform functions they    *)
(* call.  A string is a sequence of characters; a character outside the    *)
(* printable ASCII range is written by a name.                             *)
(***************************************************************************)
\* The characters of code 32 .. 126, in order (the grave accent, code 96, by
\* name).
AsciiPrintable ==
    <<" ", "!", "\"", "#", "$", "%", "&", "'", "(", ")", "*", "+", ",", "-",
      ".", "/", "0", "1", "2", "3", "4", "5", "6", "7", "8", "9", ":", ";",
      "<", "=", ">", "?", "@", "A", "B", "C", "D", "E", "F", "G", "H", "I",
      "J", "K", "L", "M", "N", "O", "P", "Q", "R", "S", "T", "U", "V", "W",
      "X", "Y", "Z", "[", "\\", "]", "^", "_", "U+96", "a", "b", "c", "d", "e",
      "f", "g", "h", "i", "j", "k", "l", "m", "n", "o", "p", "q", "r", "s",
      "t", "u", "v", "w", "x", "y", "z", "{", "|", "}", "~">>
LineFeed == "\n"
\* U+00E9, a character outside ASCII, and a high surrogate without its pair.
EAcute == "U+233"
LoneSurrogate == "U+55357"
\* U+FFFD, which a lossy UTF-8 decoder puts in place of a malformed byte.
ReplacementChar == "U+65533"
LineTerminators == {LineFeed, "U+13", "U+8232", "U+8233"}

\* The code point of a character of the model, and the character of a code
\* point.
CodeOf(c) ==
    IF c = LineFeed THEN 10
    ELSE IF c = EAcute THEN 233
    ELSE 32 + IndexOf(AsciiPrintable, c)
CharOf(cp) ==
    IF cp \in 32..126 THEN AsciiPrintable[cp - 31]
    ELSE IF cp = 10 THEN LineFeed
    ELSE "U+" \o ToString(cp)

\* The UTF-8 encoding of a character below U+10000.
Utf8Bytes(c) ==
    LET cp == CodeOf(c)
    IN  IF cp < 128 THEN <<cp>>
        ELSE IF cp < 2048 THEN <<192 + (cp \div 64), 128 + (cp % 64)>>
        ELSE <<224 + (cp \div 4096), 128 + ((cp \div 64) % 64), 128 + (cp % 64)>>

HexUpper == <<"0", "1", "2", "3", "4", "5", "6", "7", "8", "9",
              "A", "B", "C", "D", "E", "F">>
HexLower == <<"0", "1", "2", "3", "4", "5", "6", "7", "8", "9",
              "a", "b", "c", "d", "e", "f">>
\* The value of each hexadecimal digit.
HexValue ==
    [c \in {HexUpper[i] : i \in 1..16} \cup {HexLower[i] : i \in 1..16} |->
        IF IndexOf(HexUpper, c) >= 0 THEN IndexOf(HexUpper, c) ELSE IndexOf(HexLower, c)]
HexDigits == DOMAIN HexValue

\* The result of a call that threw a URIError.
UriError == <<"URIError">>

\* encodeURIComponent: the characters A-Z a-z 0-9 - _ . ! ~ * ' ( ) stay, every
\* other one becomes the %XX escapes of its UTF-8 bytes; a lone surrogate
\* throws.
UriUnreserved ==
    {UpperChars[i] : i \in 1..Len(UpperChars)}
      \cup {LowerChars[i] : i \in 1..Len(LowerChars)}
      \cup {DigitChars[i] : i \in 1..Len(DigitChars)}
      \cup {"-", "_", ".", "!", "~", "*", "'", "(", ")"}
PercentByte(b) == <<"%", HexUpper[(b \div 16) + 1], HexUpper[(b % 16) + 1]>>
RECURSIVE PercentBytes(_)
PercentBytes(bs) ==
    IF bs = <<>> THEN <<>> ELSE PercentByte(Head(bs)) \o PercentBytes(Tail(bs))
RECURSIVE EncodeChars(_)
EncodeChars(s) ==
    IF s = <<>> THEN <<>>
    ELSE (IF Head(s) \in UriUnreserved THEN <<Head(s)>>
          ELSE PercentBytes(Utf8Bytes(Head(s)))) \o EncodeChars(Tail(s))
encodeURIComponent(s) ==
    IF \E i \in 1..Len(s) : s[i] = LoneSurrogate THEN UriError ELSE EncodeChars(s)

\* The byte the escape %XX at index i of s denotes, or -1 when there is no
\* escape at i.
EscapeAt(s, i) ==
    IF i + 2 <= Len(s) /\ s[i] = "%" /\ s[i + 1] \in HexDigits /\ s[i + 2] \in HexDigits
    THEN (16 * HexValue[s[i + 1]]) + HexValue[s[i + 2]]
    ELSE -1

\* The character whose UTF-8 encoding begins with byte b and goes on with
\* c1, c2, c3 (a byte is -1 where the string has no escape): len is the
\* number of bytes, 0 when they do not encode a character.
Utf8Char(b, c1, c2, c3) ==
    IF b < 0 THEN [len |-> 0, cp |-> 0]
    ELSE IF b < 128 THEN [len |-> 1, cp |-> b]
    ELSE IF b \in 194..223 /\ c1 \in 128..191
         THEN [len |-> 2, cp |-> ((b - 192) * 64) + (c1 - 128)]
    ELSE IF /\ b \in 224..239 /\ c1 \in 128..191 /\ c2 \in 128..191
            /\ b = 224 => c1 >= 160
            /\ b = 237 => c1 <= 159
         THEN [len |-> 3, cp |-> ((b - 224) * 4096) + ((c1 - 128) * 64) + (c2 - 128)]
    ELSE IF /\ b \in 240..244 /\ c1 \in 128..191 /\ c2 \in 128..191 /\ c3 \in 128..191
            /\ b = 240 => c1 >= 144
            /\ b = 244 => c1 <= 143
         THEN [len |-> 4, cp |-> ((b - 240) * 262144) + ((c1 - 128) * 4096)
                                   + ((c2 - 128) * 64) + (c3 - 128)]
    ELSE [len |-> 0, cp |-> 0]

\* The character the escapes at index i of s denote.
EscapedChar(s, i) ==
    Utf8Char(EscapeAt(s, i), EscapeAt(s, i + 3), EscapeAt(s, i + 6), EscapeAt(s, i + 9))

\* A character in front of a decoded rest, which may be the URIError.
Prepend(c, rest) == IF rest = UriError THEN UriError ELSE <<c>> \o rest

\* decodeURIComponent: every escape is decoded; a % that does not begin the
\* escapes of a character throws.
RECURSIVE DecodeFrom(_, _)
DecodeEscaped(s, i, e) ==
    IF e.len = 0 THEN UriError
    ELSE Prepend(CharOf(e.cp), DecodeFrom(s, i + (3 * e.len)))
DecodeFrom(s, i) ==
    IF i > Len(s) THEN <<>>
    ELSE IF s[i] # "%" THEN Prepend(s[i], DecodeFrom(s, i + 1))
    ELSE DecodeEscaped(s, i, EscapedChar(s, i))
decodeURIComponent(s) == DecodeFrom(s, 1)

\* The decoding URLSearchParams applies to a name or a value: + is a space,
\* escapes are decoded, and what is not an escape stays; a byte that is not
\* part of the encoding of a character becomes U+FFFD.
RECURSIVE QueryDecodeFrom(_, _)
QueryDecodeEscaped(s, i, e) ==
    IF e.len = 0 THEN <<ReplacementChar>> \o QueryDecodeFrom(s, i + 3)
    ELSE <<CharOf(e.cp)>> \o QueryDecodeFrom(s, i + (3 * e.len))
QueryDecodeFrom(s, i) ==
    IF i > Len(s) THEN <<>>
    ELSE IF s[i] = "+" THEN <<" ">> \o QueryDecodeFrom(s, i + 1)
    ELSE IF s[i] # "%" \/ EscapeAt(s, i) < 0 THEN <<s[i]>> \o QueryDecodeFrom(s, i + 1)
    ELSE QueryDecodeEscaped(s, i, EscapedChar(s, i))
QueryDecode(s) == QueryDecodeFrom(s, 1)

\* s.split(c)
RECURSIVE SplitOn(_, _)
SplitOn(s, c) ==
    LET k == IndexOf(s, c)
    IN  IF k = -1 THEN <<s>>
        ELSE <<SubSeq(s, 1, k)>> \o SplitOn(SubSeq(s, k + 2, Len(s)), c)

\* new URLSearchParams(init): the list of (name, value) pairs of the pieces
\* between the &, each split at its first =.
QueryPair(piece) ==
    LET k == IndexOf(piece, "=")
    IN  IF k = -1 THEN [name |-> QueryDecode(piece), value |-> <<>>]
        ELSE [name |-> QueryDecode(SubSeq(piece, 1, k)),
              value |-> QueryDecode(SubSeq(piece, k + 2, Len(piece)))]
URLSearchParams(init) ==
    LET query == IF init # <<>> /\ init[1] = "?" THEN Tail(init) ELSE init
        pieces == SelectSeq(SplitOn(query, "&"), LAMBDA piece : piece # <<>>)
    IN  [i \in 1..Len(pieces) |-> QueryPair(pieces[i])]

\* params.get(name): the value of the first pair of that name, or null.
Null == <<"null">>
ParamsGet(params, name) ==
    LET at == {i \in 1..Len(params) : params[i].name = name}
    IN  IF at = {} THEN Null
        ELSE params[CHOOSE i \in at : \A j \in at : i <= j].value

\* value || fallback for a string or null.
OrElse(value, fallback) == IF value = Null \/ value = <<>> THEN fallback ELSE value

\* parseInt(str): leading white space, a sign, then the longest run of
\* digits, hexadecimal after 0x; NaN when there is no digit.
RECURSIVE SkipWhite(_)
SkipWhite(s) ==
    IF s # <<>> /\ Head(s) \in {" ", LineFeed} THEN SkipWhite(Tail(s)) ELSE s
RECURSIVE DigitRun(_, _, _)
DigitRun(s, radix, acc) ==
    IF s = <<>> THEN acc
    ELSE IF Head(s) \notin HexDigits THEN acc
    ELSE IF HexValue[Head(s)] >= radix THEN acc
    ELSE DigitRun(Tail(s), radix,
                  [count |-> acc.count + 1, value |-> (acc.value * radix) + HexValue[Head(s)]])
parseInt(str) ==
    LET s == SkipWhite(str)
        signed == s # <<>> /\ Head(s) \in {"+", "-"}
        sign == IF s # <<>> /\ Head(s) = "-" THEN -1 ELSE 1
        body == IF signed THEN Tail(s) ELSE s
        hex == Len(body) >= 2 /\ body[1] = "0" /\ body[2] \in {"x", "X"}
        run == IF hex THEN DigitRun(SubSeq(body, 3, Len(body)), 16, [count |-> 0, value |-> 0])
               ELSE DigitRun(body, 10, [count |-> 0, value |-> 0])
    IN  IF run.count = 0 THEN [nan |-> TRUE, value |-> 0]
        ELSE [nan |-> FALSE, value |-> sign * run.value]

\* generateOTPAuthURL (app.js 747-749).
OtpAuthPrefix == <<"o", "t", "p", "a", "u", "t", "h", ":", "/", "/", "t",
                   "o", "t", "p", "/">>
SecretParam == <<"s", "e", "c", "r", "e", "t">>
IssuerParam == <<"i", "s", "s", "u", "e", "r">>
generateOTPAuthURL(secret, account, issuer) ==
    LET encIssuer == encodeURIComponent(issuer)
        encAccount == encodeURIComponent(account)
    IN  IF encIssuer = UriError \/ encAccount = UriError THEN UriError
        ELSE OtpAuthPrefix \o encIssuer \o <<":">> \o encAccount
               \o <<"?">> \o SecretParam \o <<"=">> \o secret
               \o <<"&">> \o IssuerParam \o <<"=">> \o encIssuer

\* url.match(/otpauth:\/\/totp\/([^?]+)\?(.+)/) (app.js 758): the groups of
\* the leftmost match, or NoMatch.  NextIndex is the first index from i on
\* that holds a character of `stops`, Len(s) + 1 when there is none.
NoMatch == <<>>
NextIndex(s, i, stops) ==
    LET at == {k \in i..Len(s) : s[k] \in stops}
    IN  IF at = {} THEN Len(s) + 1 ELSE CHOOSE k \in at : \A j \in at : k <= j
matchAt(url, i) ==
    LET j == i + Len(OtpAuthPrefix)
        k == NextIndex(url, j, {"?"})
        e == NextIndex(url, k + 1, LineTerminators)
    IN  IF /\ j - 1 <= Len(url)
           /\ SubSeq(url, i, j - 1) = OtpAuthPrefix
           /\ k > j /\ k <= Len(url) /\ e > k + 1
        THEN <<SubSeq(url, j, k - 1), SubSeq(url, k + 1, e - 1)>>
        ELSE NoMatch
otpAuthMatch(url) ==
    LET at == {i \in 1..Len(url) : matchAt(url, i) # NoMatch}
    IN  IF at = {} THEN NoMatch
        ELSE matchAt(url, CHOOSE i \in at : \A j \in at : i <= j)

\* parseOTPAuthURL (app.js 756-775).  NotAString is an argument without a
\* match method: the call of url.match throws, inside the try.
NotAString == <<"undefined">>
NullResult == [threw |-> FALSE, isNull |-> TRUE]
Sha1Name == <<"S", "H", "A", "1">>
DigitsParam == <<"d", "i", "g", "i", "t", "s">>
PeriodParam == <<"p", "e", "r", "i", "o", "d">>
AlgorithmParam == <<"a", "l", "g", "o", "r", "i", "t", "h", "m">>
\* The object the return statement builds (app.js 764-771).
descriptor(label, params) ==
    [threw |-> FALSE, isNull |-> FALSE,
     label |-> label,
     secret |-> ParamsGet(params, SecretParam),
     issuer |-> OrElse(ParamsGet(params, IssuerParam), <<>>),
     algorithm |-> OrElse(ParamsGet(params, AlgorithmParam), Sha1Name),
     digits |-> parseInt(OrElse(ParamsGet(params, DigitsParam), <<"6">>)),
     period |-> parseInt(OrElse(ParamsGet(params, PeriodParam), <<"3", "0">>))]
\* The statements after a successful match (app.js 761-771): a URIError of
\* decodeURIComponent is caught and null returned.
parseMatched(label, query) ==
    IF label = UriError THEN NullResult ELSE descriptor(label, URLSearchParams(query))
parseMatch(match) ==
    IF match = NoMatch THEN NullResult
    ELSE parseMatched(decodeURIComponent(match[1]), match[2])
parseOTPAuthURL(url) ==
    IF url = NotAString THEN NullResult ELSE parseMatch(otpAuthMatch(url))

(***************************************************************************)
(* The clock.  Date.now() is read by handlers; successive reads are        *)
(* non-decreasing.  ClockPoints are the instants the model lets it return. *)
(***************************************************************************)
WindowOffsets == {0, 1, WindowMs - 1}
ClockPoints == {w * WindowMs + o : w \in 0..MaxWindow, o \in WindowOffsets}
ClockFrom(t) == {u \in ClockPoints : u >= t}
\* The instants a later read of the same synchronous run may return: the
\* same millisecond or the next one.
SameRun(t) == {u \in ClockFrom(t) : u <= t + 1}
Windows == 0..MaxWindow
WindowOf(t) == t \div WindowMs

\* The secrets a session may carry (credentials.twofa is non-empty).
SessionSecrets == {<<"m", "-", "y", "=">>, <<"1">>}

\* The MACs of the platform for the messages a session can sign: the driver
\* runs against one HMAC function, which gives successive counters
\* different MACs.
MacSeq == <<MacRfc, MacRamp, MacHigh, MacOnes, MacZero>>
SessionTable(sec) ==
    [p \in {<<totpKey(sec), intToBytes(JsNumber(c))>> : c \in 0..(MaxWindow + 1)} |->
        MacSeq[(p[2][8] % Len(MacSeq)) + 1]]

(***************************************************************************)
(* refreshTOTPCode (app.js 255-265).                                       *)
(***************************************************************************)
\* The part up to the await: generateTOTP reads the clock (time) and calls
\* hmacSha1; the refresh is then in flight.  The set of refreshes in flight
\* after the n-th call of refreshTOTPCode:
refreshStart(flights, n, time) == flights \cup {[seq |-> n, time |-> time]}

\* currentTOTPCode after the promise of generateTOTP settled with result.
refreshedCode(result, code) == IF result.ok THEN result.code ELSE code

\* codeEl.textContent after the promise settled.
refreshedText(result, text) ==
    IF result.ok
    THEN Slice(result.code, 0, 3) \o <<" ">> \o Slice(result.code, 3, Len(result.code))
    ELSE text

\* The number of console.error calls after the promise settled.
refreshedLogUncaught(result, log) == log
refreshedLog(result, log) == IF result.ok THEN log ELSE log + 1

\* The part after the await, for the refresh r whose hmacSha1 call had outcome.
refreshSettle(r, outcome) ==
    LET result == generateTOTP(twofa, DefaultTimeStep, DefaultDigits, r.time, outcome)
    IN  /\ hmacTable' = Reveal(hmacTable, totpKey(twofa),
                               totpMessage(DefaultTimeStep, r.time), outcome)
        /\ currentTOTPCode' = refreshedCode(result, currentTOTPCode)
        /\ codeElText' = refreshedText(result, codeElText)
        /\ errorLog' = refreshedLog(result, errorLog)
        /\ settled' = settled + 1
        /\ rejections' = IF outcome = Rejected THEN rejections + 1 ELSE rejections
        /\ published' = IF outcome = Rejected THEN published
                        ELSE [seq |-> r.seq,
                              counter |-> totpCounter(DefaultTimeStep, r.time)]

(***************************************************************************)
(* animate (app.js 327-348).                                               *)
(***************************************************************************)
\* Math.floor(now / 30000) * 30000
codeTime(t) == (t \div WindowMs) * WindowMs

\* if (currentCodeTime !== lastCodeTime)
needsRefresh(currentCodeTime, lastCT) == currentCodeTime # lastCT

\* lastCodeTime after the check.
nextLastCodeTimeStale(currentCodeTime, lastCT) == lastCT
nextLastCodeTime(currentCodeTime, lastCT) ==
    IF needsRefresh(currentCodeTime, lastCT) THEN currentCodeTime ELSE lastCT

\* const scale = 1 - (elapsed / 30000), as its numerator over WindowMs.
scaleOfElapsed(t) == t - codeTime(t)
scaleOf(t) == WindowMs - (t - codeTime(t))

\* The frame requests armed after requestAnimationFrame returned id, the
\* request `fired` having been consumed (or cancelled) before.
rearm(frames, fired, id) == (frames \ {fired}) \cup {id}

\* One saturating step of a history counter.
Bump(n) == IF n >= 2 THEN 2 ELSE n + 1

\* One run of animate reading the clock as t, with lastCodeTime = lastCT and
\* the refreshes `flights` in flight on entry; the frame request `fired`
\* (0: none) is no longer armed.
animate(t, lastCT, flights, fired) ==
    LET currentCodeTime == codeTime(t)
        refresh == needsRefresh(currentCodeTime, lastCT)
        w == WindowOf(t)
    IN  /\ lastCodeTime' = nextLastCodeTime(currentCodeTime, lastCT)
        /\ IF refresh
           THEN \E tr \in SameRun(t) :
                   /\ now' = tr
                   /\ refreshCount' = refreshCount + 1
                   /\ lastStarted' = tr
                   /\ inFlight' = refreshStart(flights, refreshCount + 1, tr)
           ELSE /\ now' = t /\ inFlight' = flights
                /\ refreshCount' = refreshCount /\ lastStarted' = lastStarted
        /\ progressScale' = scaleOf(t)
        /\ animationFrameId' = nextFrameId
        /\ pendingFrames' = rearm(pendingFrames, fired, nextFrameId)
        /\ nextFrameId' = nextFrameId + 1
        /\ prevTick' = lastTick
        /\ lastTick' = [time |-> t, refreshed |-> refresh]
        /\ ticksIn' = [ticksIn EXCEPT ![w] = Bump(@)]
        /\ refreshIn' = [refreshIn EXCEPT ![w] = IF refresh THEN Bump(@) ELSE @]
        /\ firstTickRefreshed' =
              [firstTickRefreshed EXCEPT ![w] = IF ticksIn[w] = 0 THEN refresh ELSE @]

(***************************************************************************)
(* The driver: initTOTP (app.js 214-249), startProgressAnimation           *)
(* (app.js 323-355) and the callbacks the host runs.                       *)
(***************************************************************************)
callVars == <<prevCall, lastCall, remaining, urlCall, helperCall>>
loopVars == <<lastCodeTime, progressScale, animationFrameId, pendingFrames,
              nextFrameId, prevTick, lastTick, ticksIn, refreshIn,
              firstTickRefreshed, startWindow>>
vars == <<now, hmacTable, twofa, pc, presented, currentTOTPCode, animationFrameId,
          lastCodeTime, codeElText, progressScale, errorLog, inFlight,
          pendingFrames, nextFrameId, refreshCount, lastStarted, published,
          rejections,
          settled, startWindow, lastTick, prevTick, ticksIn, refreshIn,
          firstTickRefreshed, prevCall, lastCall, remaining, urlCall,
          helperCall>>

NoCall == [called |-> FALSE]
NoTick == [time |-> -1, refreshed |-> FALSE]

\* The page as loaded, before DOMContentLoaded: the module-level variables
\* as declared (app.js 205-207) and the element totpCode as rendered.
PageLoaded ==
    /\ pc = "loading"
    /\ presented = TRUE
    /\ currentTOTPCode = <<>>
    /\ animationFrameId = 0
    /\ lastCodeTime = -1
    /\ codeElText = <<"-", "-", "-", " ", "-", "-", "-">>
    /\ progressScale = -1
    /\ errorLog = 0
    /\ inFlight = {}
    /\ pendingFrames = {}
    /\ nextFrameId = 1
    /\ refreshCount = 0
    /\ lastStarted = -1
    /\ published = [seq |-> 0, counter |-> -1]
    /\ rejections = 0
    /\ settled = 0
    /\ startWindow = -1
    /\ lastTick = NoTick
    /\ prevTick = NoTick
    /\ ticksIn = [w \in Windows |-> 0]
    /\ refreshIn = [w \in Windows |-> 0]
    /\ firstTickRefreshed = [w \in Windows |-> FALSE]

NoCalls ==
    /\ prevCall = NoCall
    /\ lastCall = NoCall
    /\ remaining = NoCall
    /\ urlCall = NoCall
    /\ helperCall = NoCall

InitDriver ==
    /\ now \in {t \in ClockPoints : WindowOf(t) = 0}
    /\ twofa \in SessionSecrets
    /\ hmacTable = SessionTable(twofa)
    /\ PageLoaded
    /\ NoCalls

\* initTOTP up to its await: the first refreshTOTPCode call.
initTOTP ==
    /\ pc = "loading"
    /\ \E t \in ClockFrom(now) :
          /\ now' = t
          /\ inFlight' = refreshStart(inFlight, refreshCount + 1, t)
          /\ lastStarted' = t
    /\ refreshCount' = refreshCount + 1
    /\ pc' = "initial"
    /\ UNCHANGED <<hmacTable, twofa, presented, currentTOTPCode, codeElText,
                   errorLog, published, rejections, settled>>
    /\ UNCHANGED loopVars
    /\ UNCHANGED callVars

\* startProgressAnimation reading the clock as t1 (app.js 325) and, in its
\* first run of animate, as t2: a frame request left armed is cancelled.
startProgressAnimation(t1, t2, flights) ==
    /\ startWindow' = WindowOf(t1)
    /\ animate(t2, codeTime(t1), flights, animationFrameId)

\* The initial refresh settles; initTOTP resumes and starts the loop.
initialRefreshSettles ==
    /\ pc = "initial"
    /\ \E r \in inFlight :
          \E outcome \in hmacSha1(hmacTable, totpKey(twofa),
                                  totpMessage(DefaultTimeStep, r.time), MacSet) :
             /\ refreshSettle(r, outcome)
             /\ \E t1 \in ClockFrom(now) : \E t2 \in SameRun(t1) :
                   startProgressAnimation(t1, t2, inFlight \ {r})
    /\ pc' = "running"
    /\ UNCHANGED <<twofa, presented>>
    /\ UNCHANGED callVars

\* A refresh started by animate settles.
refreshSettles ==
    /\ pc = "running"
    /\ \E r \in inFlight :
          \E outcome \in hmacSha1(hmacTable, totpKey(twofa),
                                  totpMessage(DefaultTimeStep, r.time), MacSet) :
             /\ refreshSettle(r, outcome)
             /\ inFlight' = inFlight \ {r}
    /\ UNCHANGED <<now, twofa, pc, presented, refreshCount, lastStarted>>
    /\ UNCHANGED loopVars
    /\ UNCHANGED callVars

\* The host runs an armed frame request: one run of animate.
frameFires ==
    /\ pc = "running"
    /\ nextFrameId <= MaxTicks
    /\ \E f \in pendingFrames : \E t \in ClockFrom(now) :
          animate(t, lastCodeTime, inFlight, f)
    /\ UNCHANGED <<hmacTable, twofa, pc, presented, currentTOTPCode, codeElText,
                   errorLog, published, rejections, settled, startWindow>>
    /\ UNCHANGED callVars

NextDriver == initTOTP \/ initialRefreshSettles \/ refreshSettles \/ frameFires

Spec == InitDriver /\ [][NextDriver]_vars

\* The presentation is torn down while the loop runs (the TOTP section leaves
\* the page).  No code of app.js runs on that event: nothing calls
\* cancelAnimationFrame but startProgressAnimation itself (app.js 350-352),
\* so every variable of the program stays as it is.
teardown ==
    /\ pc = "running"
    /\ presented
    /\ presented' = FALSE
    /\ UNCHANGED <<now, hmacTable, twofa, pc, currentTOTPCode, codeElText,
                   errorLog, inFlight, refreshCount, lastStarted, published,
                   rejections,
                   settled>>
    /\ UNCHANGED loopVars
    /\ UNCHANGED callVars

NextTeardown == NextDriver \/ teardown

SpecTeardown == InitDriver /\ [][NextTeardown]_vars

(***************************************************************************)
(* Calls of the exported functions of the TOTP module on their own: the    *)
(* page stays as loaded, the clock advances, and a caller invokes          *)
(* generateTOTP or getTimeRemaining with arguments of its choice.          *)
(***************************************************************************)
driverVars == <<twofa, pc, presented, currentTOTPCode, codeElText, errorLog,
                inFlight, refreshCount, lastStarted, published, rejections,
                settled>>

\* The secrets handed to generateTOTP: empty, without a valid symbol, and one
\* that holds a key.
TotpSecrets == {<<>>, <<"1", "!">>, <<"m", "-", "y", "=">>}
\* The MACs the platform may give them.
TotpMacs == {MacZero, MacHigh, MacRfc}

\* The clock moves on to a later instant of `points`.
clockAdvances(points) ==
    /\ \E t \in points : t > now /\ now' = t
    /\ UNCHANGED <<hmacTable, prevCall, lastCall, remaining, urlCall, helperCall>>
    /\ UNCHANGED driverVars
    /\ UNCHANGED loopVars

\* generateTOTP(sec, timeStep, digits) is called and its promise settles; with
\* keepPrev the call before it is remembered too.
callGenerateTOTP(secrets, timeSteps, digitCounts, fresh, keepPrev) ==
    /\ \E sec \in secrets : \E timeStep \in timeSteps : \E digits \in digitCounts :
          \E outcome \in hmacSha1(hmacTable, totpKey(sec),
                                  totpMessage(timeStep, now), fresh) :
             /\ hmacTable' = Reveal(hmacTable, totpKey(sec),
                                    totpMessage(timeStep, now), outcome)
             /\ lastCall' = [called |-> TRUE, secret |-> sec, timeStep |-> timeStep,
                             digits |-> digits, time |-> now, outcome |-> outcome,
                             result |-> generateTOTP(sec, timeStep, digits, now,
                                                     outcome)]
    /\ prevCall' = IF keepPrev THEN lastCall ELSE prevCall
    /\ UNCHANGED <<now, remaining, urlCall, helperCall>>
    /\ UNCHANGED driverVars
    /\ UNCHANGED loopVars

\* getTimeRemaining(timeStep) is called.
callGetTimeRemaining(timeSteps) ==
    /\ \E timeStep \in timeSteps :
          remaining' = [called |-> TRUE, timeStep |-> timeStep, time |-> now,
                        value |-> getTimeRemaining(timeStep, now)]
    /\ UNCHANGED <<now, hmacTable, prevCall, lastCall, urlCall, helperCall>>
    /\ UNCHANGED driverVars
    /\ UNCHANGED loopVars

InitCalls ==
    /\ now = 0
    /\ twofa = <<>>
    /\ hmacTable = <<>>
    /\ PageLoaded
    /\ NoCalls

\* Calls of generateTOTP with every digit count, in one time step.
DigitCounts == 6..10
OneStepClock == {0, WindowMs - 1}
generateAnyDigits ==
    callGenerateTOTP(TotpSecrets, {DefaultTimeStep}, DigitCounts, TotpMacs, FALSE)
NextTotp == clockAdvances(OneStepClock) \/ generateAnyDigits
SpecTotp == InitCalls /\ [][NextTotp]_vars

\* Calls of generateTOTP at instants on both sides of a step boundary.
StepSecrets == {<<"M", "Y">>, <<"m", "-", "y", "=">>}
StepClock == {0, WindowMs - 1, WindowMs}
generateAcrossSteps ==
    callGenerateTOTP(StepSecrets, {DefaultTimeStep, 2 * DefaultTimeStep},
                     {DefaultDigits}, {MacRfc, MacRamp}, TRUE)
NextStep == clockAdvances(StepClock) \/ generateAcrossSteps
SpecStep == InitCalls /\ [][NextStep]_vars

\* Calls of getTimeRemaining at every second of the first windows, at the
\* first and at the last millisecond of the second.
SecondClock == {sec * MsPerSecond + o : sec \in 0..((MaxWindow * DefaultTimeStep) + 1),
                                        o \in {0, MsPerSecond - 1}}
clockTicks == clockAdvances({t \in SecondClock : t > now /\ \A u \in SecondClock : u > now => t <= u})
remainingCalled == callGetTimeRemaining({DefaultTimeStep})
NextTime == clockTicks \/ remainingCalled
SpecTime == InitCalls /\ [][NextTime]_vars

\* parseOTPAuthURL(url) is called.
callParseOTPAuthURL(urls) ==
    /\ \E url \in urls :
          urlCall' = [called |-> TRUE, op |-> "parse", url |-> url,
                      result |-> parseOTPAuthURL(url)]
    /\ UNCHANGED <<now, hmacTable, prevCall, lastCall, remaining, helperCall>>
    /\ UNCHANGED driverVars
    /\ UNCHANGED loopVars

\* parseOTPAuthURL(generateOTPAuthURL(secret, account, issuer)) is evaluated;
\* a URIError of generateOTPAuthURL leaves the expression by throwing.
callRoundTrip(secrets, accounts, issuers) ==
    /\ \E secret \in secrets : \E account \in accounts : \E issuer \in issuers :
          LET url == generateOTPAuthURL(secret, account, issuer)
          IN  urlCall' = [called |-> TRUE, op |-> "roundTrip", secret |-> secret,
                          account |-> account, issuer |-> issuer, url |-> url,
                          result |-> IF url = UriError
                                     THEN [threw |-> TRUE, isNull |-> TRUE]
                                     ELSE parseOTPAuthURL(url)]
    /\ UNCHANGED <<now, hmacTable, prevCall, lastCall, remaining, helperCall>>
    /\ UNCHANGED driverVars
    /\ UNCHANGED loopVars

\* The arguments of a round trip.
UrlSecrets ==
    {<<>>,
     <<"J", "B", "S", "W", "Y", "3", "D", "P">>,
     <<"M", "Y", "=", "=", "=", "=", "=", "=">>,
     <<"A", "&", "B">>,
     <<"A", "+", "B">>,
     <<"A", "%", "4", "2">>}
UrlAccounts ==
    {<<>>,
     <<"u", "@", "x", ".", "y">>,
     <<"a", "?", "b", ":", "c">>,
     <<"r", EAcute>>,
     <<LoneSurrogate>>}
UrlIssuers ==
    {<<"G", "i", "t", "H", "u", "b">>,
     <<>>,
     <<"A", "&", "B">>}

\* The arguments of parseOTPAuthURL: what precedes the scheme, the scheme and
\* type, the label, the separator and the parameters.
UrlHeads ==
    {<<>>,
     <<"x">>}
UrlSchemes ==
    {<<"o", "t", "p", "a", "u", "t", "h", ":", "/", "/", "t", "o", "t", "p", "/">>,
     <<"o", "t", "p", "a", "u", "t", "h", ":", "/", "/", "h", "o", "t", "p", "/">>}
UrlLabels ==
    {<<>>,
     <<"G", ":", "u">>,
     <<"%", "z", "z">>,
     <<"%", "C", "3", "%", "A", "9">>}
UrlSeparators == {<<>>, <<"?">>}
UrlQueries ==
    {<<>>,
     <<"s", "e", "c", "r", "e", "t", "=", "A", "+", "B", "&", "d", "i", "g", "i", "t", "s", "=", "8">>,
     <<"d", "i", "g", "i", "t", "s", "=", "0", "x", "1", "0", "&", "p", "e", "r", "i", "o", "d", "=", "x">>,
     <<"\n", "s", "e", "c", "r", "e", "t", "=", "b">>}
ParseInputs ==
    {h \o s \o l \o q \o p : h \in UrlHeads, s \in UrlSchemes, l \in UrlLabels,
                             q \in UrlSeparators, p \in UrlQueries}
      \cup {NotAString}

roundTrips == callRoundTrip(UrlSecrets, UrlAccounts, UrlIssuers)
parses == callParseOTPAuthURL(ParseInputs)
NextUrl == roundTrips \/ parses
SpecUrl == InitCalls /\ [][NextUrl]_vars

\* base32Decode(str) is called: with the empty string first, then with the
\* argument of the call before and one more character of `chars`.
callBase32Decode(chars) ==
    /\ \E str \in (IF helperCall.called /\ helperCall.op = "base32Decode"
                   THEN {Append(helperCall.arg, c) : c \in chars}
                   ELSE {<<>>}) :
          /\ Len(str) <= MaxSecretLen
          /\ helperCall' = [called |-> TRUE, op |-> "base32Decode", arg |-> str,
                            result |-> base32Decode(str)]
    /\ UNCHANGED <<now, hmacTable, prevCall, lastCall, remaining, urlCall>>
    /\ UNCHANGED driverVars
    /\ UNCHANGED loopVars

\* The characters of the strings decoded: the symbols of value 31 and (in
\* lower case) 1, a separator, and a letter outside ASCII whose upper case
\* is the symbol I.
SecretChars == {"7", "b", "-", DotlessI}
decodes == callBase32Decode(SecretChars)
SpecBase32 == InitCalls /\ [][decodes]_vars

(***************************************************************************)
(* Properties of the driver.                                               *)
(***************************************************************************)
\* A step in which animate ran.
TickStep == nextFrameId' = nextFrameId + 1
\* A step in which the promise of a refresh settled.
SettleStep == settled' = settled + 1
\* A string of exactly n decimal digits.
DigitSet == {DigitChars[i] : i \in 1..Len(DigitChars)}
IsCode(s, n) == Len(s) = n /\ \A i \in 1..Len(s) : s[i] \in DigitSet

\* C1: with non-decreasing timestamps, every 30-second window in which
\* animate ran, other than the window in which the loop was started, saw
\* exactly one call of refreshTOTPCode by animate, made by the first run of
\* animate in that window.
C1_RefreshOncePerWindow ==
    \A w \in Windows :
        (ticksIn[w] > 0 /\ w # startWindow) =>
            (refreshIn[w] = 1 /\ firstTickRefreshed[w])

\* Two or more runs of animate in a window other than the start window.
C1_Witness ==
    \E w \in Windows : w # startWindow /\ ticksIn[w] = 2 /\ refreshIn[w] = 1

\* C3: a rejected refresh is caught and logged once (and nothing else is
\* logged); the loop goes on: after a rejection every run of animate re-arms
\* a frame request, and a run in a window other than that of lastCodeTime
\* starts a new refresh; the loop starts even when the initial refresh is
\* the one rejected.
C3_FailureKeepsLoop ==
    [][ /\ (rejections' # rejections) =>
              (rejections' = rejections + 1 /\ errorLog' = errorLog + 1)
        /\ (rejections' = rejections) => (errorLog' = errorLog)
        /\ (pc' = "running") =>
              (animationFrameId' # 0 /\ animationFrameId' \in pendingFrames')
        /\ (TickStep /\ rejections > 0) =>
              /\ animationFrameId' # animationFrameId
              /\ (codeTime(lastTick'.time) # lastCodeTime) =>
                    refreshCount' = refreshCount + 1
        /\ (pc = "initial" /\ rejections' # rejections) => pc' = "running"
      ]_vars

\* A refresh was rejected and logged, and a refresh started later published
\* its code.
C3_Witness ==
    /\ rejections = 1 /\ errorLog = 1
    /\ published.seq = 2 /\ settled = 2 /\ ticksIn[WindowOf(lastTick.time)] > 0

\* C4 (as claimed): once the presentation is torn down no frame request
\* remains armed, and from then on animate neither starts a refresh nor
\* redraws the progress bar.
C4_StoppedAfterTeardown ==
    [][ /\ (~presented') => (pendingFrames' = {})
        /\ (~presented) =>
              /\ refreshCount' = refreshCount
              /\ nextFrameId' = nextFrameId
              /\ progressScale' = progressScale
      ]_vars

\* C5: a refresh whose hmacSha1 call rejects publishes nothing (the code and
\* the text shown stay as they were, the rejection reaches the catch of
\* refreshTOTPCode); a refresh whose hmacSha1 call resolves publishes a code:
\* generateTOTP fails in no other case.
C5_RejectionPublishesNothing ==
    [][ SettleStep =>
          IF rejections' # rejections
          THEN /\ currentTOTPCode' = currentTOTPCode
               /\ codeElText' = codeElText
               /\ published' = published
               /\ errorLog' = errorLog + 1
          ELSE /\ IsCode(currentTOTPCode', DefaultDigits)
               /\ published'.seq # published.seq
               /\ errorLog' = errorLog
      ]_vars

\* Every refresh after the first was rejected, and the code of the first is
\* still the one published.
C5_Witness ==
    /\ published.seq = 1 /\ refreshCount >= 2 /\ inFlight = {}
    /\ rejections = refreshCount - 1
    /\ IsCode(currentTOTPCode, DefaultDigits)

\* C6 (as claimed): on every run of animate the scale lies in [0, 1); inside
\* one window it decreases strictly with increasing timestamps; on the first
\* run in a new window it is greater than the last value of the window before.
C6_ScaleAsClaimed ==
    [][ TickStep =>
          /\ 0 <= progressScale' /\ progressScale' < WindowMs
          /\ (lastTick.time >= 0 /\ lastTick.time < lastTick'.time
                /\ WindowOf(lastTick.time) = WindowOf(lastTick'.time)) =>
                progressScale' < progressScale
          /\ (lastTick.time >= 0
                /\ WindowOf(lastTick.time) # WindowOf(lastTick'.time)) =>
                progressScale' > progressScale
      ]_vars

\* C6 (amended): on every run of animate the scale lies in (0, 1], and is 1
\* exactly on a window boundary; inside one window it decreases strictly with
\* increasing timestamps; on the first run in a new window that comes less
\* than one window length after the run before, it is greater than the last
\* value of the window before.
C6_ScaleAmended ==
    [][ TickStep =>
          /\ 0 < progressScale' /\ progressScale' <= WindowMs
          /\ (progressScale' = WindowMs) <=> (lastTick'.time % WindowMs = 0)
          /\ (lastTick.time >= 0 /\ lastTick.time < lastTick'.time
                /\ WindowOf(lastTick.time) = WindowOf(lastTick'.time)) =>
                progressScale' < progressScale
          /\ (lastTick.time >= 0
                /\ WindowOf(lastTick.time) # WindowOf(lastTick'.time)
                /\ lastTick'.time - lastTick.time < WindowMs) =>
                progressScale' > progressScale
      ]_vars

\* The first run of animate in a new window, on the boundary itself, less
\* than a window length after the run before: the scale drawn is 1.
C6_Witness ==
    /\ prevTick.time >= 0
    /\ WindowOf(prevTick.time) # WindowOf(lastTick.time)
    /\ lastTick.time - prevTick.time < WindowMs
    /\ progressScale = WindowMs

(***************************************************************************)
(* Properties of the exported functions.                                   *)
(***************************************************************************)
\* C2: two calls of generateTOTP with the same secret, time step and digit
\* count, at times t1 and t2 with floor(t1/timeStep) = floor(t2/timeStep),
\* that both fulfil, fulfil with the same code.
C2_SameStepSameCode ==
    (/\ prevCall.called /\ lastCall.called
     /\ prevCall.secret = lastCall.secret
     /\ prevCall.timeStep = lastCall.timeStep
     /\ prevCall.digits = lastCall.digits
     /\ (prevCall.time \div MsPerSecond) \div prevCall.timeStep
          = (lastCall.time \div MsPerSecond) \div lastCall.timeStep
     /\ prevCall.result.ok /\ lastCall.result.ok)
    => prevCall.result.code = lastCall.result.code

\* Two calls with the same arguments at the two ends of one time step, with
\* the same code.
C2_Witness ==
    /\ prevCall.called /\ lastCall.called
    /\ prevCall.secret = lastCall.secret
    /\ prevCall.timeStep = DefaultTimeStep /\ lastCall.timeStep = DefaultTimeStep
    /\ prevCall.time = 0 /\ lastCall.time = WindowMs - 1
    /\ prevCall.result.ok /\ lastCall.result.ok
    /\ prevCall.result.code = lastCall.result.code

\* Everything but the record of the last getTimeRemaining call.
allButRemaining ==
    <<now, hmacTable, prevCall, lastCall, urlCall, helperCall, driverVars, loopVars>>

\* C7: at t seconds, t >= 0, getTimeRemaining(30) returns 30 - (t mod 30),
\* which lies in 1..30 and is 30 exactly when t mod 30 = 0; the call changes
\* nothing.
C7_TimeRemaining ==
    /\ [](remaining.called =>
            LET t == remaining.time \div MsPerSecond
            IN  /\ remaining.value = remaining.timeStep - (t % remaining.timeStep)
                /\ remaining.value \in 1..DefaultTimeStep
                /\ (remaining.value = DefaultTimeStep) <=> (t % DefaultTimeStep = 0))
    /\ [][remaining' # remaining => UNCHANGED allButRemaining]_vars

\* A call in the last millisecond of the first second of the second window:
\* t = 30 and the value is 30.
C7_Witness ==
    /\ remaining.called
    /\ remaining.time = WindowMs + MsPerSecond - 1
    /\ remaining.value = DefaultTimeStep

\* The number a string of decimal digits denotes.
RECURSIVE DigitsValue(_)
DigitsValue(s) ==
    IF s = <<>> THEN 0
    ELSE 10 * DigitsValue(SubSeq(s, 1, Len(s) - 1)) + IndexOf(DigitChars, s[Len(s)])

\* RFC 4226, 5.3: the 31-bit number at the offset the last nibble names.
RfcBinary(mac) ==
    LET o == mac[MacLen] % 16
    IN  (mac[o + 1] % 128) * Two24 + mac[o + 2] * Two16 + mac[o + 3] * Two8 + mac[o + 4]

\* C8: for digits in 6..10, generateTOTP fulfils whenever its hmacSha1 call
\* does, with a string of exactly `digits` decimal digits whose value is
\* binary mod 10^digits.
C8_FixedWidthCode ==
    lastCall.called =>
       /\ lastCall.result.ok <=> (lastCall.outcome # Rejected)
       /\ lastCall.result.ok =>
             /\ IsCode(lastCall.result.code, lastCall.digits)
             /\ DigitsValue(lastCall.result.code) =
                   (IF lastCall.digits >= 10 THEN RfcBinary(lastCall.outcome)
                    ELSE RfcBinary(lastCall.outcome) % Pow10(lastCall.digits))

\* An empty secret and ten digits: the code is the number, padded with zeros
\* on the left.
C8_Witness ==
    /\ lastCall.called /\ lastCall.result.ok
    /\ lastCall.secret = <<>> /\ lastCall.digits = 10
    /\ lastCall.result.code[1] = "0"
    /\ lastCall.result.code[10] # "0"

\* C9: parseOTPAuthURL(generateOTPAuthURL(secret, account, issuer)) is not
\* null, its secret and issuer are the ones given, its label is
\* issuer:account, and algorithm, digits and period are SHA1, 6 and 30.
C9_RoundTrip ==
    (urlCall.called /\ urlCall.op = "roundTrip") =>
       /\ ~urlCall.result.threw
       /\ ~urlCall.result.isNull
       /\ urlCall.result.secret = urlCall.secret
       /\ urlCall.result.issuer = urlCall.issuer
       /\ urlCall.result.label = urlCall.issuer \o <<":">> \o urlCall.account
       /\ urlCall.result.algorithm = Sha1Name
       /\ urlCall.result.digits = [nan |-> FALSE, value |-> DefaultDigits]
       /\ urlCall.result.period = [nan |-> FALSE, value |-> DefaultTimeStep]

\* A round trip of a secret of base32 symbols, which recovers every field.
C9_Witness ==
    /\ urlCall.called /\ urlCall.op = "roundTrip"
    /\ urlCall.secret = <<"J", "B", "S", "W", "Y", "3", "D", "P">>
    /\ urlCall.account = <<"u", "@", "x", ".", "y">>
    /\ ~urlCall.result.isNull
    /\ urlCall.result.secret = urlCall.secret
    /\ urlCall.result.label = urlCall.issuer \o <<":">> \o urlCall.account

\* A string of the shape otpauth://totp/{label}?{parameters}.
HasOtpAuthShape(url) ==
    /\ url # NotAString
    /\ Len(url) > Len(OtpAuthPrefix)
    /\ SubSeq(url, 1, Len(OtpAuthPrefix)) = OtpAuthPrefix
    /\ \E k \in (Len(OtpAuthPrefix) + 1)..Len(url) : url[k] = "?"

\* C10: parseOTPAuthURL does not throw, and returns null for every argument
\* that is not of the shape otpauth://totp/{label}?{parameters}.
C10_NullUnlessShape ==
    (urlCall.called /\ urlCall.op = "parse") =>
       /\ ~urlCall.result.threw
       /\ ~HasOtpAuthShape(urlCall.url) => urlCall.result.isNull

\* An argument whose label is not percent-encoded text: null, not a throw.
C10_Witness ==
    /\ urlCall.called /\ urlCall.op = "parse"
    /\ HasOtpAuthShape(urlCall.url)
    /\ urlCall.result.isNull /\ ~urlCall.result.threw

\* The values v1..vn of the symbols of a string: the alphabet indices of the
\* characters of the upper-cased string that lie in A-Z2-7.
RECURSIVE SymbolValues(_)
SymbolValues(str) ==
    IF str = <<>> THEN <<>>
    ELSE IF IndexOf(BASE32_ALPHABET, UpperChar(Head(str))) = -1 THEN SymbolValues(Tail(str))
    ELSE <<IndexOf(BASE32_ALPHABET, UpperChar(Head(str)))>> \o SymbolValues(Tail(str))

\* Bit j (from 0) of the concatenation of the 5-bit values, most significant
\* bit first, and the byte made of bits 8k .. 8k+7.
SymbolBit(vs, j) == (vs[(j \div 5) + 1] \div TwoPow[(4 - (j % 5)) + 1]) % 2
SymbolByte(vs, k) ==
    (128 * SymbolBit(vs, 8 * k)) + (64 * SymbolBit(vs, (8 * k) + 1))
      + (32 * SymbolBit(vs, (8 * k) + 2)) + (16 * SymbolBit(vs, (8 * k) + 3))
      + (8 * SymbolBit(vs, (8 * k) + 4)) + (4 * SymbolBit(vs, (8 * k) + 5))
      + (2 * SymbolBit(vs, (8 * k) + 6)) + SymbolBit(vs, (8 * k) + 7)
SymbolBytes(vs) == [k \in 1..((5 * Len(vs)) \div 8) |-> SymbolByte(vs, k - 1)]

\* The string without the characters that are no symbol.
StripNonSymbols(str) ==
    SelectSeq(str, LAMBDA c : IndexOf(BASE32_ALPHABET, UpperChar(c)) # -1)

\* C11: base32Decode returns floor(5n/8) bytes, byte k being bits 8k..8k+7
\* of the concatenated 5-bit values of the n symbols of its argument; the
\* result is that of decoding the argument stripped of everything else, and
\* is empty when there is no symbol.
C11_DecodesSymbolBits ==
    (helperCall.called /\ helperCall.op = "base32Decode") =>
       /\ Len(helperCall.result) = (5 * Len(SymbolValues(helperCall.arg))) \div 8
       /\ helperCall.result = SymbolBytes(SymbolValues(helperCall.arg))
       /\ helperCall.result = base32Decode(StripNonSymbols(helperCall.arg))
       /\ SymbolValues(helperCall.arg) = <<>> => helperCall.result = <<>>

\* Seven symbols, 35 bits, between other characters: the accumulator has
\* left the 32-bit range and four bytes come out.
C11_Witness ==
    /\ helperCall.called /\ helperCall.op = "base32Decode"
    /\ helperCall.arg = <<"7", "b", "7", "7", DotlessI, "7", "b">>
    /\ helperCall.result = <<248, 127, 244, 124>>

\* Calls of generateTOTP whose MAC is any of the truncation cases: every
\* offset, either high nibble in the last byte, and the extreme bytes at the
\* four places read, all other bytes being 85.
TruncFirstBytes == {0, 127, 128, 255}
TruncOtherBytes == {0, 1, 255}
TruncMac(offset, nibble, b0, b1, b2, b3) ==
    [i \in 1..MacLen |->
        IF i = MacLen THEN nibble * 16 + offset
        ELSE IF i = offset + 1 THEN b0
        ELSE IF i = offset + 2 THEN b1
        ELSE IF i = offset + 3 THEN b2
        ELSE IF i = offset + 4 THEN b3
        ELSE 85]
TruncMacs ==
    {TruncMac(o, h, b0, b1, b2, b3) :
        o \in 0..15, h \in {0, 15}, b0 \in TruncFirstBytes,
        b1 \in TruncOtherBytes, b2 \in TruncOtherBytes, b3 \in TruncOtherBytes}
generateTruncated ==
    callGenerateTOTP({<<>>}, {DefaultTimeStep}, {DefaultDigits}, TruncMacs, FALSE)
SpecTrunc == InitCalls /\ [][generateTruncated]_vars

(***************************************************************************)
(* C14: dynamic truncation in generateTOTP.  For every 20-byte MAC the     *)
(* offset mac[19] & 0x0F lies in 0..15, the four bytes read at offset ..   *)
(* offset + 3 all lie inside the MAC, and binary is                        *)
(* (mac[offset] & 0x7F) * 2^24 + mac[offset+1] * 2^16 + mac[offset+2] * 2^8 *)
(* + mac[offset+3], a non-negative integer in 0 .. 2^31 - 1; the code      *)
(* returned is made from that number.                                      *)
(***************************************************************************)
C14_DynamicTruncation ==
    (lastCall.called /\ lastCall.outcome # Rejected) =>
       LET mac == lastCall.outcome
           offset == truncOffset(mac)
           binary == truncBinary(mac)
       IN  /\ Len(mac) = MacLen
           /\ offset \in 0..15
           /\ offset = mac[MacLen] % 16
           /\ \A k \in 0..3 : (offset + k + 1) \in DOMAIN mac
           /\ binary = (mac[offset + 1] % 128) * Two24 + mac[offset + 2] * Two16
                          + mac[offset + 3] * Two8 + mac[offset + 4]
           /\ binary \in 0..MaxInt32
           /\ lastCall.result.code = formatOtp(binary, lastCall.digits)

\* Offset 15 with the top bit of the first byte set and every other bit of
\* the four bytes set too: the last byte read is mac[18], binary is 2^31 - 1.
C14_Witness ==
    /\ lastCall.called
    /\ lastCall.outcome = TruncMac(15, 15, 255, 255, 255, 255)
    /\ truncOffset(lastCall.outcome) = 15
    /\ truncBinary(lastCall.outcome) = MaxInt32
    /\ lastCall.result.code = <<"4", "8", "3", "6", "4", "7">>

\* intToBytes(num) is called with a counter below 2^53.
callIntToBytes(uppers, lowers) ==
    /\ \E upper \in uppers : \E lower \in lowers :
          helperCall' = [called |-> TRUE, op |-> "intToBytes",
                         arg |-> <<upper, lower>>,
                         result |-> intToBytes(<<upper, lower>>)]
    /\ UNCHANGED <<now, hmacTable, prevCall, lastCall, remaining, urlCall>>
    /\ UNCHANGED driverVars
    /\ UNCHANGED loopVars

\* The counters encoded: the parts above 2^30 put them on both sides of
\* 2^31, 2^32 and 2^33 and up to 2^53 - 1, the parts below reach every
\* byte of the low word.
CounterUppers == {0, 1, 2, 3, 4, 5, 7, 8, Pow2(10) + 1, Pow2(18) + 3,
                  Pow2(23) - 2, Pow2(23) - 1}
CounterLowers == {0, 1, Two8 - 1, Two8, Two16 - 1, Two16, Two24 - 1, Two24,
                  Two30 - 2, Two30 - 1}
encodes == callIntToBytes(CounterUppers, CounterLowers)
SpecCounter == InitCalls /\ [][encodes]_vars

\* The value of the bytes b[from .. from + 3], big-endian, without the bits
\* of the first byte above `mask`.
BytesValue(b, from, mask) ==
    (b[from] % mask) * Two24 + b[from + 1] * Two16 + b[from + 2] * Two8 + b[from + 3]

(***************************************************************************)
(* C15: counter encoding.  For every counter c with 0 <= c < 2^53,         *)
(* intToBytes(c) returns exactly 8 bytes b0..b7 that are the unsigned      *)
(* big-endian encoding of c (the sum of b_i * 256^(7-i) is c): b0..b3 hold *)
(* floor(c / 2^32) and b4..b7 hold c mod 2^32, nothing being lost at the   *)
(* 32-bit split.  With c = upper * 2^30 + lower, the encoded value is c    *)
(* when its part above 2^30 is upper and its part below is lower.          *)
(***************************************************************************)
C15_BigEndianCounter ==
    (helperCall.called /\ helperCall.op = "intToBytes") =>
       LET b == helperCall.result
           upper == helperCall.arg[1]
           lower == helperCall.arg[2]
       IN  /\ Len(b) = 8
           /\ \A i \in 1..8 : b[i] \in 0..(Two8 - 1)
           /\ b[1] = 0
           /\ BytesValue(b, 1, Two8) = upper \div 4
           /\ BytesValue(b, 1, Two8) * 4 + b[5] \div 64 = upper
           /\ BytesValue(b, 5, 64) = lower

\* The counter 2^53 - 1: every bit of the low word is set, the high word is
\* 2^21 - 1.
C15_Witness ==
    /\ helperCall.called /\ helperCall.op = "intToBytes"
    /\ helperCall.arg = <<Pow2(23) - 1, Two30 - 1>>
    /\ helperCall.result = <<0, 31, 255, 255, 255, 255, 255, 255>>

(***************************************************************************)
(* C12: once initTOTP has finished its first refresh and started the loop, *)
(* after every run of animate that leaves no refresh in flight, while no   *)
(* refresh has failed, the published code is the code of the window that   *)
(* holds the time animate read: it was generated with the counter          *)
(* floor(now / 30000).  This covers the start in which a window boundary   *)
(* lies between the time read by the first generateTOTP call (app.js 712)  *)
(* and the time read for lastCodeTime (app.js 325).                        *)
(***************************************************************************)
C12_PublishedCodeOfTickWindow ==
    (/\ pc = "running"
     /\ lastTick.time >= 0
     /\ inFlight = {}
     /\ rejections = 0)
    => published.counter = WindowOf(lastTick.time)

\* The loop was started in the window after the one of the first code, and
\* animate ran without asking for a refresh.
C12_Witness ==
    /\ pc = "running"
    /\ inFlight = {}
    /\ rejections = 0
    /\ refreshCount = 1
    /\ published.counter = 0
    /\ startWindow = 1
    /\ lastTick.time = WindowMs + 1
    /\ ~lastTick.refreshed

(***************************************************************************)
(* C13: animate starts refreshTOTPCode without awaiting it, so several     *)
(* refreshes can be in flight together.  Whatever the order in which their *)
(* hash operations complete, once all have completed (none having failed)  *)
(* the published code is the one produced by the most recently started     *)
(* refresh: it was generated with that refresh's counter, never with the   *)
(* counter of an earlier window.                                           *)
(***************************************************************************)
C13_LatestRefreshWins ==
    (/\ pc = "running"
     /\ inFlight = {}
     /\ rejections = 0)
    => (\/ published.seq = refreshCount
        \/ published.counter = totpCounter(DefaultTimeStep, lastStarted))

\* Two refreshes of different windows were in flight together, the one
\* started first completed last, and its code is the published one.
C13_Witness ==
    /\ pc = "running"
    /\ inFlight = {}
    /\ rejections = 0
    /\ refreshCount = 3
    /\ settled = 3
    /\ published.seq = 2
    /\ published.counter = 1
    /\ totpCounter(DefaultTimeStep, lastStarted) = 2

====
